---- MODULE Spec2Model ----
(***************************************************************************)
(* Model of publish/src/util.js: the deployment helper library.            *)
(*                                                                         *)
(* JavaScript values are modelled as tagged records:                       *)
(*   Str(s)    a string            Bool(b)  a boolean                      *)
(*   Undefined the value undefined Obj(p)   a plain object, p its own      *)
(*                                          enumerable properties          *)
(* A file on disk is either Missing or File(j), j the JSON document its    *)
(* text denotes.                                                           *)
(***************************************************************************)
EXTENDS Integers, Sequences, FiniteSets

VARIABLES
    dir,          \* the deployment directory: file name -> Missing | File(json)
    lastOp,       \* the operation that ran last
    outcome,      \* outcome of the last loadAndCheckRequiredSources call
    previous,     \* summary of the call before that one
    dirBefore,    \* the directory as it was when that call started
    ownerActions, \* the in-memory ledger object made by the last successful load
    closure,      \* the closure made by appendOwnerActionGenerator, if any
    lastAppend,   \* history: key -> arguments of the closure's latest call for that key
    answer,       \* confirmAction: the line the user typed
    promise,      \* confirmAction: state of the promise it returned
    rl,           \* confirmAction: state of the readline interface
    catchCall,    \* catchMissingResolverWhenGeneratingSolidity: arguments of the call
    catchResult,  \* catchMissingResolverWhenGeneratingSolidity: its outcome
    gasCall,      \* assignGasOptions: arguments of the call and the provider's behaviour
    gasResult,    \* assignGasOptions: how the promise settled
    connCall,     \* loadConnections: arguments of the call and the environment
    connResult,   \* loadConnections: its outcome
    pc,           \* two processes: where each is in its load of the owner-action file
    memLedger,    \* two processes: each one's in-memory ledger object
    snapshot,     \* history: the ledger each process loaded
    appended,     \* history: the keys each process appended
    appendedAfter,\* history: the keys each appended once both had loaded
    lastWriter    \* history: the process that wrote the owner-action file last

confirmVars == <<answer, promise, rl>>
catchVars == <<catchCall, catchResult>>
gasVars == <<gasCall, gasResult>>
connVars == <<connCall, connResult>>
raceVars == <<pc, memLedger, snapshot, appended, appendedAfter, lastWriter>>
loadVars == <<dir, lastOp, outcome, previous, dirBefore, ownerActions, closure, lastAppend>>

\* What the calls of one helper leave alone: the state of the others.
exceptLoad == <<confirmVars, catchVars, gasVars, connVars, raceVars>>
exceptConfirm == <<loadVars, catchVars, gasVars, connVars, raceVars>>
exceptCatch == <<loadVars, confirmVars, gasVars, connVars, raceVars>>
exceptGas == <<loadVars, confirmVars, catchVars, connVars, raceVars>>
exceptConn == <<loadVars, confirmVars, catchVars, gasVars, raceVars>>
exceptRace == <<lastOp, outcome, previous, dirBefore, ownerActions, closure, lastAppend,
                confirmVars, catchVars, gasVars, connVars>>

----------------------------------------------------------------------------
(* Bounds of the model *)

MaxKeys == 2
MaxAnswerLen == 3
MaxMessageLen == 3
MaxGwei == 2
MaxAppends == 2

----------------------------------------------------------------------------
(* JavaScript values *)

Str(s) == [kind |-> "string", val |-> s]
Bool(b) == [kind |-> "boolean", val |-> b]
Undefined == [kind |-> "undefined"]
Obj(p) == [kind |-> "object", props |-> p]
EmptyProps == [k \in {} |-> Undefined]
EmptyObject == Obj(EmptyProps)

\* An object shaped like a serialized ethers BigNumber; hex is held as the
\* number its hex string denotes.
BigNumberShaped(n) == Obj([type |-> Str("BigNumber"), hex |-> n])

Digit == <<"0", "1", "2", "3", "4", "5", "6", "7", "8", "9">>

RECURSIVE DecimalString(_)
DecimalString(n) ==
    IF n < 10 THEN Digit[n + 1]
    ELSE DecimalString(n \div 10) \o Digit[(n % 10) + 1]

\* obj[key] = value
SetProp(obj, key, value) ==
    Obj([k \in DOMAIN obj.props \cup {key} |->
            IF k = key THEN value ELSE obj.props[k]])

----------------------------------------------------------------------------
(* Serialization *)

JSONreplacer(value) ==
    IF /\ value.kind = "object"
       /\ "type" \in DOMAIN value.props
       /\ value.props["type"] = Str("BigNumber")
    THEN Str(DecimalString(value.props["hex"]))
    ELSE value

\* JSON.stringify's walk: the replacer is applied to every value, a property
\* whose value is undefined is left out.
RECURSIVE Serialize(_)
Serialize(value) ==
    LET r == JSONreplacer(value) IN
    IF r.kind = "object"
    THEN Obj([k \in {q \in DOMAIN r.props : JSONreplacer(r.props[q]).kind # "undefined"}
                |-> Serialize(r.props[k])])
    ELSE r

Missing == [kind |-> "missing"]
File(json) == [kind |-> "file", json |-> json]

stringify(input) == File(Serialize(input))

\* JSON.parse(fs.readFileSync(file))
Threw == [threw |-> TRUE]
Returned(v) == [threw |-> FALSE, value |-> v]

readJSON(d, file) ==
    IF d[file] = Missing THEN Threw ELSE Returned(d[file].json)

----------------------------------------------------------------------------
(* File names *)

CONFIG_FILENAME == "config.json"
PARAMS_FILENAME == "params.json"
DEPLOYMENT_FILENAME == "deployment.json"
OWNER_ACTIONS_FILENAME == "owner-actions.json"
SYNTHS_FILENAME == "synths.json"
STAKING_REWARDS_FILENAME == "rewards.json"
SHORTING_REWARDS_FILENAME == "shorting-rewards.json"
VERSIONS_FILENAME == "versions.json"
FEEDS_FILENAME == "feeds.json"
FUTURES_MARKETS_FILENAME == "futures-markets.json"

ReadOnlyFiles ==
    {SYNTHS_FILENAME, STAKING_REWARDS_FILENAME, SHORTING_REWARDS_FILENAME,
     CONFIG_FILENAME, PARAMS_FILENAME, FUTURES_MARKETS_FILENAME,
     VERSIONS_FILENAME, FEEDS_FILENAME}

MutableFiles == {DEPLOYMENT_FILENAME, OWNER_ACTIONS_FILENAME}

Files == ReadOnlyFiles \cup MutableFiles

Networks == {"local", "mainnet", "goerli"}

----------------------------------------------------------------------------
(* Bulk loader *)

\* The getters of the package root, called with a deploymentPath: each reads
\* and parses its file of the deployment directory.
getSynths(d) == readJSON(d, SYNTHS_FILENAME)
getStakingRewards(d) == readJSON(d, STAKING_REWARDS_FILENAME)
getShortingRewards(d) == readJSON(d, SHORTING_REWARDS_FILENAME)
getVersions(d) == readJSON(d, VERSIONS_FILENAME)
getFeeds(d) == readJSON(d, FEEDS_FILENAME)

DefaultDeployment == Obj([targets |-> EmptyObject, sources |-> EmptyObject])
DefaultOwnerActions == EmptyObject

\* Variant: the default is written whether or not the file exists.
ensureFileAlwaysWrites(d, written, file, default) ==
    [dir |-> [d EXCEPT ![file] = stringify(default)], written |-> written \cup {file}]

\* if (!fs.existsSync(file)) fs.writeFileSync(file, stringify(default))
\* Result: the directory and the set of files written.
ensureFile(d, written, file, default) ==
    IF d[file] = Missing
    THEN [dir |-> [d EXCEPT ![file] = stringify(default)], written |-> written \cup {file}]
    ELSE [dir |-> d, written |-> written]

\* Variant: freshDeploy is not looked at.
applyFreshDeployIgnored(deployment, freshDeploy) == deployment

\* if (freshDeploy) { deployment.targets = {}; deployment.sources = {}; }
applyFreshDeploy(deployment, freshDeploy) ==
    IF freshDeploy
    THEN SetProp(SetProp(deployment, "targets", EmptyObject), "sources", EmptyObject)
    ELSE deployment

\* Lines 75-105: the read-only inputs, read in source order; the first read
\* that fails throws.
readInputs(d, network) ==
    LET synths == getSynths(d)
        stakingRewards == getStakingRewards(d)
        shortingRewards == getShortingRewards(d)
        config == readJSON(d, CONFIG_FILENAME)
        params == readJSON(d, PARAMS_FILENAME)
        futuresMarkets == readJSON(d, FUTURES_MARKETS_FILENAME)
        versions == IF network # "local" THEN getVersions(d) ELSE Returned(EmptyObject)
        feeds == getFeeds(d)
    IN  IF \/ synths.threw \/ stakingRewards.threw \/ shortingRewards.threw
           \/ config.threw \/ params.threw \/ futuresMarkets.threw
           \/ versions.threw \/ feeds.threw
        THEN Threw
        ELSE Returned([synths |-> synths.value,
                       stakingRewards |-> stakingRewards.value,
                       shortingRewards |-> shortingRewards.value,
                       config |-> config.value,
                       params |-> params.value,
                       futuresMarkets |-> futuresMarkets.value,
                       versions |-> versions.value,
                       feeds |-> feeds.value])

\* Lines 107-148: the two mutable files, created when missing, then read.
loadMutable(d, freshDeploy) ==
    LET e1 == ensureFile(d, {}, DEPLOYMENT_FILENAME, DefaultDeployment)
        deployment == applyFreshDeploy(readJSON(e1.dir, DEPLOYMENT_FILENAME).value,
                                       freshDeploy)
        e2 == ensureFile(e1.dir, e1.written, OWNER_ACTIONS_FILENAME, DefaultOwnerActions)
        ledger == readJSON(e2.dir, OWNER_ACTIONS_FILENAME).value
    IN  [dir |-> e2.dir, written |-> e2.written,
         deployment |-> deployment, ownerActions |-> ledger]

\* Variant: the two mutable files are created before the inputs are read.
loadCreatesBeforeReading(d, network, freshDeploy) ==
    LET inputs == readInputs(d, network)
        m == loadMutable(d, freshDeploy)
    IN  IF inputs.threw
        THEN [threw |-> TRUE, dir |-> m.dir, written |-> m.written]
        ELSE [threw |-> FALSE, dir |-> m.dir, written |-> m.written,
              value |-> [config |-> inputs.value.config,
                         params |-> inputs.value.params,
                         synths |-> inputs.value.synths,
                         stakingRewards |-> inputs.value.stakingRewards,
                         futuresMarkets |-> inputs.value.futuresMarkets,
                         deployment |-> m.deployment,
                         ownerActions |-> m.ownerActions,
                         versions |-> inputs.value.versions,
                         feeds |-> inputs.value.feeds,
                         shortingRewards |-> inputs.value.shortingRewards]]

\* A call of loadAndCheckRequiredSources on directory d: whether it threw, the
\* directory afterwards, the files it wrote and, when it returned, the value.
loadAndCheckRequiredSources(d, network, freshDeploy) ==
    LET inputs == readInputs(d, network) IN
    IF inputs.threw
    THEN [threw |-> TRUE, dir |-> d, written |-> {}]
    ELSE LET m == loadMutable(d, freshDeploy) IN
         [threw |-> FALSE, dir |-> m.dir, written |-> m.written,
          value |-> [config |-> inputs.value.config,
                     params |-> inputs.value.params,
                     synths |-> inputs.value.synths,
                     stakingRewards |-> inputs.value.stakingRewards,
                     futuresMarkets |-> inputs.value.futuresMarkets,
                     deployment |-> m.deployment,
                     ownerActions |-> m.ownerActions,
                     versions |-> inputs.value.versions,
                     feeds |-> inputs.value.feeds,
                     shortingRewards |-> inputs.value.shortingRewards]]

----------------------------------------------------------------------------
(* Explorer links and the owner-action recorder *)

getExplorerLinkPrefix(network, useOvm) ==
    "https://"
    \o (IF network # "mainnet" THEN network \o (IF useOvm THEN "-" ELSE ".") ELSE "")
    \o (IF useOvm THEN "explorer.optimism" ELSE "etherscan")
    \o ".io"

\* The entry the closure builds for one call.
ownerActionEntry(prefix, action, target, data) ==
    Obj([target |-> Str(target),
         action |-> Str(action),
         complete |-> Bool(FALSE),
         link |-> Str(prefix \o "/address/" \o target \o "#writeContract"),
         data |-> data])

\* Variant: an earlier entry under the key keeps its completion flag.
appendOwnerActionMerging(ledger, prefix, key, action, target, data) ==
    LET entry == ownerActionEntry(prefix, action, target, data)
        merged == IF key \in DOMAIN ledger.props
                  THEN SetProp(entry, "complete", ledger.props[key].props["complete"])
                  ELSE entry
        after == SetProp(ledger, key, merged)
    IN  [ownerActions |-> after, file |-> stringify(after)]

\* Variant: only the appended entry is written to the file.
appendOwnerActionWritesEntryOnly(ledger, prefix, key, action, target, data) ==
    LET entry == ownerActionEntry(prefix, action, target, data)
    IN  [ownerActions |-> SetProp(ledger, key, entry),
         file |-> stringify(SetProp(EmptyObject, key, entry))]

\* Variant: the ledger is written as it was before the entry was set.
appendOwnerActionWritesBeforeInsert(ledger, prefix, key, action, target, data) ==
    [ownerActions |-> SetProp(ledger, key, ownerActionEntry(prefix, action, target, data)),
     file |-> stringify(ledger)]

\* One call of the closure: the ledger object afterwards and the content
\* written to the owner-action file.
appendOwnerAction(ledger, prefix, key, action, target, data) ==
    LET after == SetProp(ledger, key, ownerActionEntry(prefix, action, target, data))
    IN  [ownerActions |-> after, file |-> stringify(after)]

----------------------------------------------------------------------------
(* Inputs *)

KeyNames == <<"Issuer.rebuildCache", "FeePool.acceptOwnership",
              "Synthetix.setProxy", "Exchanger.setTrigger">>
Keys == {KeyNames[i] : i \in 1..MaxKeys}
Targets == {"0xA1", "0xB2"}
Actions == {"acceptOwnership()"}
DataValues == {Str("0xc0ffee"), BigNumberShaped(255), Undefined}

\* The document of a read-only input file.
Doc(file) == Obj([name |-> Str(file)])

\* An entry already on disk and already carried out.
CompletedEntry ==
    Obj([target |-> Str("0xA1"), action |-> Str("nominateNewOwner(owner)"),
         complete |-> Bool(TRUE),
         link |-> Str("https://etherscan.io/address/0xA1#writeContract"),
         data |-> Str("0x01")])

DeployedRecord ==
    Obj([targets |-> Obj([Synthetix |-> Obj([address |-> Str("0xA1")])]),
         sources |-> Obj([Synthetix |-> Obj([bytecode |-> Str("0x60")])])])

DeploymentFileStates == {Missing, File(DefaultDeployment), File(DeployedRecord)}
OwnerActionsFileStates ==
    {Missing, File(EmptyObject), File(Obj([k \in {KeyNames[1]} |-> CompletedEntry]))}

InitialDirs ==
    {[f \in Files |->
        IF f = DEPLOYMENT_FILENAME THEN dep
        ELSE IF f = OWNER_ACTIONS_FILENAME THEN oa
        ELSE IF f \in absent THEN Missing ELSE File(Doc(f))] :
     absent \in SUBSET ReadOnlyFiles,
     dep \in DeploymentFileStates,
     oa \in OwnerActionsFileStates}

----------------------------------------------------------------------------------------------------------------------------------------
(* The loader: calls of loadAndCheckRequiredSources on one directory *)

NoCall == [called |-> FALSE]
NoClosure == [made |-> FALSE]

InitLoad ==
    /\ dir \in InitialDirs
    /\ lastOp = "none"
    /\ outcome = NoCall
    /\ previous = NoCall
    /\ dirBefore = dir
    /\ ownerActions = EmptyObject
    /\ closure = NoClosure
    /\ lastAppend = EmptyProps

\* What is remembered of a call once the next one has run.
Summary(o, before) ==
    IF o.called
    THEN [called |-> TRUE, freshDeploy |-> o.freshDeploy, threw |-> o.threw,
          deploymentFile |-> before[DEPLOYMENT_FILENAME]]
    ELSE NoCall

Load(network, freshDeploy) ==
    LET r == loadAndCheckRequiredSources(dir, network, freshDeploy) IN
    /\ lastOp' = "load"
    /\ previous' = Summary(outcome, dirBefore)
    /\ dirBefore' = dir
    /\ dir' = r.dir
    /\ IF r.threw
       THEN /\ outcome' = [called |-> TRUE, network |-> network,
                           freshDeploy |-> freshDeploy, threw |-> TRUE,
                           written |-> r.written]
            /\ UNCHANGED <<ownerActions, closure, lastAppend>>
       ELSE /\ outcome' = [called |-> TRUE, network |-> network,
                           freshDeploy |-> freshDeploy, threw |-> FALSE,
                           written |-> r.written, value |-> r.value]
            /\ ownerActions' = r.value.ownerActions
            /\ closure' = NoClosure
            /\ lastAppend' = EmptyProps
    /\ UNCHANGED exceptLoad

NextLoad ==
    \E network \in Networks, freshDeploy \in BOOLEAN : Load(network, freshDeploy)

----------------------------------------------------------------------------
(* The recorder: one process appending after a successful load *)

InputsPresent(d) == \A f \in ReadOnlyFiles : d[f] # Missing

InitLedger ==
    \E d \in {x \in InitialDirs : InputsPresent(x)}, network \in Networks :
        LET r == loadAndCheckRequiredSources(d, network, FALSE) IN
        /\ dir = r.dir
        /\ lastOp = "load"
        /\ outcome = [called |-> TRUE, network |-> network, freshDeploy |-> FALSE,
                      threw |-> FALSE, written |-> r.written, value |-> r.value]
        /\ previous = NoCall
        /\ dirBefore = d
        /\ ownerActions = r.value.ownerActions
        /\ closure = NoClosure
        /\ lastAppend = EmptyProps

\* appendOwnerActionGenerator({ ownerActions, ownerActionsFile, explorerLinkPrefix })
Generate(useOvm) ==
    /\ outcome.called /\ ~outcome.threw
    /\ ~closure.made
    /\ closure' = [made |-> TRUE,
                   explorerLinkPrefix |-> getExplorerLinkPrefix(outcome.network, useOvm)]
    /\ lastOp' = "generate"
    /\ UNCHANGED <<dir, outcome, previous, dirBefore, ownerActions, lastAppend>>
    /\ UNCHANGED exceptLoad

\* The closure called with { key, action, target, data }
AppendOwnerAction(key, action, target, data) ==
    LET r == appendOwnerAction(ownerActions, closure.explorerLinkPrefix,
                               key, action, target, data) IN
    /\ closure.made
    /\ ownerActions' = r.ownerActions
    /\ dir' = [dir EXCEPT ![OWNER_ACTIONS_FILENAME] = r.file]
    /\ lastAppend' = [k \in DOMAIN lastAppend \cup {key} |->
                        IF k = key
                        THEN [action |-> action, target |-> target, data |-> data]
                        ELSE lastAppend[k]]
    /\ lastOp' = "append"
    /\ UNCHANGED <<outcome, previous, dirBefore, closure>>
    /\ UNCHANGED exceptLoad

NextLedger ==
    \/ \E useOvm \in BOOLEAN : Generate(useOvm)
    \/ \E key \in Keys, action \in Actions, target \in Targets, data \in DataValues :
          AppendOwnerAction(key, action, target, data)

----------------------------------------------------------------------------
(* Confirmation prompt *)

\* Sequences over S of length at most n
RECURSIVE SeqsUpTo(_, _)
SeqsUpTo(S, n) ==
    IF n = 0 THEN {<<>>}
    ELSE LET shorter == SeqsUpTo(S, n - 1) IN
         shorter \cup {<<c>> \o t : c \in S, t \in {u \in shorter : Len(u) = n - 1}}

\* A line is the sequence of its characters.
AnswerChars == {"y", "Y", "n", "o", " "}
Answers ==
    SeqsUpTo(AnswerChars, MaxAnswerLen)
    \cup {<<"n", "o", " ", "w", "a", "y">>, <<"m", "a", "y", "b", "e">>}

\* /y|Y/.test(answer)
TestYes(line) == \E i \in 1..Len(line) : line[i] \in {"y", "Y"}

NoPromise == [state |-> "none", settled |-> 0]

ConfirmIdle ==
    /\ answer = <<>>
    /\ promise = NoPromise
    /\ rl = "none"

\* confirmAction(prompt): the promise is made, the interface created and the
\* question asked.
ConfirmAction ==
    /\ promise.state = "none"
    /\ promise' = [state |-> "pending", settled |-> 0]
    /\ rl' = "open"
    /\ UNCHANGED answer
    /\ UNCHANGED exceptConfirm

\* The question's callback, run with the line the user typed.
Answered(line) ==
    /\ promise.state = "pending" /\ rl = "open"
    /\ answer' = line
    /\ promise' =
          IF TestYes(line)
          THEN [state |-> "resolved", settled |-> promise.settled + 1]
          ELSE [state |-> "rejected", settled |-> promise.settled + 1,
                error |-> "Not confirmed"]
    /\ rl' = "closed"
    /\ UNCHANGED exceptConfirm

NextConfirm ==
    \/ ConfirmAction
    \/ \E line \in Answers : Answered(line)

----------------------------------------------------------------------------
(* Error classifier *)

\* An error message is a sequence of tokens: the literal text, a blank, a
\* word (a run of word characters) or a character that is neither.
MISSING_ADDRESS == "Missing address:"
Whitespace == {" "}
Words == {"FeePool"}
MessageTokens == {MISSING_ADDRESS} \cup Whitespace \cup Words \cup {"-"}
Messages == SeqsUpTo(MessageTokens, MaxMessageLen)

\* /Missing address:\s[\w]+/.test(message)
TestMissingAddress(message) ==
    \E i \in 1..Len(message) :
        /\ message[i] = MISSING_ADDRESS
        /\ i + 2 <= Len(message)
        /\ message[i + 1] \in Whitespace
        /\ message[i + 2] \in Words

\* The errors of a run, told apart by their identity.
Errors == {[id |-> n, message |-> m] : n \in {1}, m \in Messages}

NotCalled == [status |-> "none"]

CatchIdle ==
    /\ catchCall = NotCalled
    /\ catchResult = NotCalled

\* Variant: the generation flags are not looked at.
catchMissingResolverIgnoringMode(err, generateSolidity, dryRun) ==
    IF TestMissingAddress(err.message)
    THEN [status |-> "returned"]
    ELSE [status |-> "threw", thrown |-> err]

catchMissingResolverWhenGeneratingSolidity(err, generateSolidity, dryRun) ==
    IF (generateSolidity \/ dryRun) /\ TestMissingAddress(err.message)
    THEN [status |-> "returned"]
    ELSE [status |-> "threw", thrown |-> err]

InitCatch ==
    /\ catchCall \in {[status |-> "ready", err |-> e, generateSolidity |-> g, dryRun |-> r] :
                         e \in Errors, g \in BOOLEAN, r \in BOOLEAN}
    /\ catchResult = NotCalled

CatchMissingResolver ==
    /\ catchCall.status = "ready"
    /\ catchResult.status = "none"
    /\ catchResult' = catchMissingResolverWhenGeneratingSolidity(
                          catchCall.err, catchCall.generateSolidity, catchCall.dryRun)
    /\ UNCHANGED catchCall
    /\ UNCHANGED exceptCatch

NextCatch == CatchMissingResolver

----------------------------------------------------------------------------
(* Gas option builder *)

Num(n) == [kind |-> "number", val |-> n]
\* A BigNumber of gwei * 10^9 + wei
BigNumber(gwei, wei) == [kind |-> "BigNumber", gwei |-> gwei, wei |-> wei]

\* Truthiness of the values the caller may pass for a fee.
Truthy(v) ==
    /\ v.kind # "undefined"
    /\ v.kind = "number" => v.val # 0
    /\ v.kind = "string" => v.val # ""

\* value.toString()
toString(v) == IF v.kind = "number" THEN DecimalString(v.val) ELSE v.val

\* parseUnits(text, 'gwei'): throws unless text is a decimal number.
parseUnits(text) ==
    LET numbers == (0..MaxGwei) \cup {100} IN
    IF \E n \in numbers : DecimalString(n) = text
    THEN Returned(BigNumber(CHOOSE n \in numbers : DecimalString(n) = text, 0))
    ELSE Threw

\* What provider.getFeeData() does: it throws, or returns fee data that
\* reports no maxFeePerGas (null, or no such field), or fee data that does.
FeeDataBehaviours ==
    {Threw,
     Returned(EmptyObject),
     Returned(Obj([maxFeePerGas |-> [kind |-> "null"], gasPrice |-> BigNumber(1, 0)])),
     Returned(Obj([maxFeePerGas |-> BigNumber(30, 0), gasPrice |-> BigNumber(1, 0)]))}

ReportsMaxFee(feeData) ==
    /\ "maxFeePerGas" \in DOMAIN feeData.props
    /\ feeData.props["maxFeePerGas"].kind \notin {"null", "undefined"}

\* Object.assign(target, source) on property maps
ObjectAssign(target, source) ==
    [k \in DOMAIN target \cup DOMAIN source |->
        IF k \in DOMAIN source THEN source[k] ELSE target[k]]

\* The gasOptions object built when the provider reports maxFeePerGas.
\* parseUnits(maxFeePerGas.toString() || '100', 'gwei')
gasOptionsFor(maxFeePerGas, maxPriorityFeePerGas) ==
    LET fee == IF Truthy(maxFeePerGas)
               THEN parseUnits(IF toString(maxFeePerGas) = "" THEN "100"
                               ELSE toString(maxFeePerGas))
               ELSE Returned(Undefined)
        priority == IF Truthy(maxPriorityFeePerGas)
                    THEN parseUnits(toString(maxPriorityFeePerGas))
                    ELSE Returned(Undefined)
        fields == {"type"} \cup (IF Truthy(maxFeePerGas) THEN {"maxFeePerGas"} ELSE {})
                           \cup (IF Truthy(maxPriorityFeePerGas)
                                 THEN {"maxPriorityFeePerGas"} ELSE {})
    IN  IF fee.threw \/ priority.threw
        THEN Threw
        ELSE Returned([k \in fields |->
                        IF k = "type" THEN Num(2)
                        ELSE IF k = "maxFeePerGas" THEN fee.value
                        ELSE priority.value])

\* Variant: the gas options are merged over tx.
assignGasOptionsGasWins(tx, provider, maxFeePerGas, maxPriorityFeePerGas) ==
    LET feeData == IF provider.threw THEN EmptyObject ELSE provider.value
        gasOptions == IF ReportsMaxFee(feeData)
                      THEN gasOptionsFor(maxFeePerGas, maxPriorityFeePerGas)
                      ELSE Returned(EmptyProps)
    IN  IF gasOptions.threw
        THEN [status |-> "rejected"]
        ELSE [status |-> "resolved", value |-> ObjectAssign(tx, gasOptions.value)]

\* assignGasOptions({ tx, provider, maxFeePerGas, maxPriorityFeePerGas }):
\* how the promise settles.
assignGasOptions(tx, provider, maxFeePerGas, maxPriorityFeePerGas) ==
    LET feeData == IF provider.threw THEN EmptyObject ELSE provider.value
        gasOptions == IF ReportsMaxFee(feeData)
                      THEN gasOptionsFor(maxFeePerGas, maxPriorityFeePerGas)
                      ELSE Returned(EmptyProps)
    IN  IF gasOptions.threw
        THEN [status |-> "rejected"]
        ELSE [status |-> "resolved", value |-> ObjectAssign(gasOptions.value, tx)]

\* The transactions of the model: any subset of these fields.
TxFieldValue ==
    [to |-> Str("0xA1"), type |-> Num(0), maxFeePerGas |-> BigNumber(0, 7),
     maxPriorityFeePerGas |-> BigNumber(0, 1)]
Transactions == {[k \in fields |-> TxFieldValue[k]] : fields \in SUBSET DOMAIN TxFieldValue}

FeeArguments ==
    {Undefined, Str(""), Str("abc")}
    \cup {Num(n) : n \in 0..MaxGwei} \cup {Str(DecimalString(n)) : n \in 1..MaxGwei}

InitGas ==
    /\ gasCall \in {[status |-> "ready", tx |-> tx, provider |-> b,
                      maxFeePerGas |-> f, maxPriorityFeePerGas |-> q] :
                      tx \in Transactions, b \in FeeDataBehaviours,
                      f \in FeeArguments, q \in FeeArguments}
    /\ gasResult = NotCalled

AssignGasOptions ==
    /\ gasCall.status = "ready"
    /\ gasResult.status = "none"
    /\ gasResult' = assignGasOptions(gasCall.tx, gasCall.provider,
                                     gasCall.maxFeePerGas, gasCall.maxPriorityFeePerGas)
    /\ UNCHANGED gasCall
    /\ UNCHANGED exceptGas

NextGas == AssignGasOptions

----------------------------------------------------------------------------
(* Connection resolver *)

EnvNames ==
    {"OVM_PROVIDER_URL", "OVM_GOERLI_PROVIDER_URL", "PROVIDER_URL_MAINNET",
     "PROVIDER_URL", "DEPLOY_PRIVATE_KEY", "TESTNET_DEPLOY_PRIVATE_KEY"}

\* The value a variable has when set. PROVIDER_URL holds the word 'network'
\* once, between the two parts given here.
EnvValue ==
    [OVM_PROVIDER_URL |-> "https://mainnet.optimism.io",
     OVM_GOERLI_PROVIDER_URL |-> "https://goerli.optimism.io",
     PROVIDER_URL_MAINNET |-> "https://mainnet.example.io/key",
     DEPLOY_PRIVATE_KEY |-> "0xdeploy",
     TESTNET_DEPLOY_PRIVATE_KEY |-> "0xtestnet"]
PROVIDER_URL_PARTS == <<"https://", ".example.io/key">>

\* process.env[name], with the set of variables that are set
Env(set, name) == IF name \in set THEN Str(EnvValue[name]) ELSE Undefined

\* loadConnections({ network, useFork, useOvm }) with the variables in set
loadConnections(set, network, useFork, useOvm) ==
    LET providerUrl ==
            IF network = "local" \/ useFork
            THEN Returned(Str("http://127.0.0.1:8545"))
            ELSE IF useOvm
            THEN IF network = "mainnet" /\ "OVM_PROVIDER_URL" \in set
                 THEN Returned(Env(set, "OVM_PROVIDER_URL"))
                 ELSE IF "OVM_GOERLI_PROVIDER_URL" \in set
                 THEN Returned(Env(set, "OVM_GOERLI_PROVIDER_URL"))
                 ELSE Returned(Undefined)
            ELSE IF network = "mainnet" /\ "PROVIDER_URL_MAINNET" \in set
                 THEN Returned(Env(set, "PROVIDER_URL_MAINNET"))
                 \* process.env.PROVIDER_URL.replace('network', network):
                 \* a TypeError when the variable is unset
                 ELSE IF "PROVIDER_URL" \in set
                 THEN Returned(Str(PROVIDER_URL_PARTS[1] \o network
                                   \o PROVIDER_URL_PARTS[2]))
                 ELSE Threw
        privateKey ==
            IF network = "mainnet" THEN Env(set, "DEPLOY_PRIVATE_KEY")
            ELSE Env(set, "TESTNET_DEPLOY_PRIVATE_KEY")
        etherscanUrl ==
            "https://api" \o (IF network # "mainnet" THEN "-" \o network ELSE "")
            \o (IF useOvm THEN "-optimistic" ELSE "") \o ".etherscan.io/api"
    IN  IF providerUrl.threw
        THEN [status |-> "threw"]
        ELSE [status |-> "returned",
              value |-> [providerUrl |-> providerUrl.value,
                         privateKey |-> privateKey,
                         etherscanUrl |-> Str(etherscanUrl),
                         explorerLinkPrefix |->
                             Str(getExplorerLinkPrefix(network, useOvm))]]

InitConn ==
    /\ connCall \in {[status |-> "ready", env |-> set, network |-> n,
                       useFork |-> f, useOvm |-> o] :
                       set \in SUBSET EnvNames, n \in Networks,
                       f \in BOOLEAN, o \in BOOLEAN}
    /\ connResult = NotCalled

LoadConnections ==
    /\ connCall.status = "ready"
    /\ connResult.status = "none"
    /\ connResult' = loadConnections(connCall.env, connCall.network,
                                     connCall.useFork, connCall.useOvm)
    /\ UNCHANGED connCall
    /\ UNCHANGED exceptConn

NextConn == LoadConnections

----------------------------------------------------------------------------
(* Two processes on one owner-action file *)

\* Each process runs lines 121-125 of the loader, one file system call at a
\* time, then appends through its own closure. The calls are synchronous:
\* each is atomic, the sequence of them is not.
Processes == {1, 2}
NoProcess == [none |-> TRUE]
Process(p) == [none |-> FALSE, id |-> p]
RacePrefix == getExplorerLinkPrefix("mainnet", FALSE)
RaceKeys == {KeyNames[1], KeyNames[2]}
RaceData == {Str("0xc0ffee"), BigNumberShaped(255)}

RaceIdle ==
    /\ pc = [p \in Processes |-> "idle"]
    /\ memLedger = [p \in Processes |-> EmptyObject]
    /\ snapshot = [p \in Processes |-> EmptyObject]
    /\ appended = [p \in Processes |-> <<>>]
    /\ appendedAfter = [p \in Processes |-> {}]
    /\ lastWriter = NoProcess

InitRace ==
    /\ dir \in {d \in InitialDirs :
                  InputsPresent(d) /\ d[DEPLOYMENT_FILENAME] = File(DefaultDeployment)}
    /\ lastOp = "none"
    /\ outcome = NoCall
    /\ previous = NoCall
    /\ dirBefore = dir
    /\ ownerActions = EmptyObject
    /\ closure = NoClosure
    /\ lastAppend = EmptyProps
    /\ pc = [p \in Processes |-> "exists"]
    /\ memLedger = [p \in Processes |-> EmptyObject]
    /\ snapshot = [p \in Processes |-> EmptyObject]
    /\ appended = [p \in Processes |-> <<>>]
    /\ appendedAfter = [p \in Processes |-> {}]
    /\ lastWriter = NoProcess

\* fs.existsSync(ownerActionsFile)
RaceExists(p) ==
    /\ pc[p] = "exists"
    /\ pc' = [pc EXCEPT ![p] = IF dir[OWNER_ACTIONS_FILENAME] = Missing
                               THEN "create" ELSE "read"]
    /\ UNCHANGED <<dir, memLedger, snapshot, appended, appendedAfter, lastWriter>>
    /\ UNCHANGED exceptRace

\* fs.writeFileSync(ownerActionsFile, stringify({}))
RaceCreate(p) ==
    /\ pc[p] = "create"
    /\ dir' = [dir EXCEPT ![OWNER_ACTIONS_FILENAME] = stringify(DefaultOwnerActions)]
    /\ lastWriter' = Process(p)
    /\ pc' = [pc EXCEPT ![p] = "read"]
    /\ UNCHANGED <<memLedger, snapshot, appended, appendedAfter>>
    /\ UNCHANGED exceptRace

\* ownerActions = JSON.parse(fs.readFileSync(ownerActionsFile))
RaceRead(p) ==
    /\ pc[p] = "read"
    /\ memLedger' = [memLedger EXCEPT ![p] = readJSON(dir, OWNER_ACTIONS_FILENAME).value]
    /\ snapshot' = [snapshot EXCEPT ![p] = readJSON(dir, OWNER_ACTIONS_FILENAME).value]
    /\ pc' = [pc EXCEPT ![p] = "ready"]
    /\ UNCHANGED <<dir, appended, appendedAfter, lastWriter>>
    /\ UNCHANGED exceptRace

\* The process's closure called with { key, action, target, data }
RaceAppend(p, key, action, target, data) ==
    LET r == appendOwnerAction(memLedger[p], RacePrefix, key, action, target, data) IN
    /\ pc[p] = "ready"
    /\ Len(appended[p]) < MaxAppends
    /\ memLedger' = [memLedger EXCEPT ![p] = r.ownerActions]
    /\ dir' = [dir EXCEPT ![OWNER_ACTIONS_FILENAME] = r.file]
    /\ lastWriter' = Process(p)
    /\ appended' = [appended EXCEPT ![p] = Append(@, key)]
    /\ appendedAfter' =
          [appendedAfter EXCEPT ![p] =
              IF \A q \in Processes : pc[q] = "ready" THEN @ \cup {key} ELSE @]
    /\ UNCHANGED <<pc, snapshot>>
    /\ UNCHANGED exceptRace

NextRace ==
    \/ \E p \in Processes : RaceExists(p)
    \/ \E p \in Processes : RaceCreate(p)
    \/ \E p \in Processes : RaceRead(p)
    \/ \E p \in Processes, key \in RaceKeys, data \in RaceData :
          RaceAppend(p, key, "acceptOwnership()", "0xA1", data)

----------------
(* Properties of the loader *)

Loaded == lastOp = "load" /\ outcome.called
DefaultOf(f) == IF f = DEPLOYMENT_FILENAME THEN DefaultDeployment ELSE DefaultOwnerActions
ReturnedFor(f) ==
    IF f = DEPLOYMENT_FILENAME THEN outcome.value.deployment
    ELSE outcome.value.ownerActions

\* C1: a load of a directory holding every read-only input returns; each of
\* the deployment record and the owner-action file that was missing exists
\* afterwards with its default document, and the value returned for it is
\* that default; one that existed is not written.
C1_MissingMutableFilesCreated ==
    (Loaded /\ InputsPresent(dirBefore)) =>
        /\ ~outcome.threw
        /\ \A f \in MutableFiles :
              IF dirBefore[f] = Missing
              THEN /\ dir[f] = File(DefaultOf(f))
                   /\ ReturnedFor(f) = DefaultOf(f)
              ELSE /\ dir[f] = dirBefore[f]
                   /\ f \notin outcome.written

C1_Witness ==
    /\ Loaded /\ InputsPresent(dirBefore) /\ ~outcome.threw
    /\ dirBefore[DEPLOYMENT_FILENAME] = Missing
    /\ dir[DEPLOYMENT_FILENAME] = File(DefaultDeployment)
    /\ dirBefore[OWNER_ACTIONS_FILENAME] # Missing
    /\ outcome.written = {DEPLOYMENT_FILENAME}

FailedCleanly == outcome.threw /\ dir = dirBefore /\ outcome.written = {}

\* C2 as stated: a load of a directory missing any read-only input fails and
\* leaves the set of files as it was, for every network.
C2_AnyMissingInputFails ==
    (Loaded /\ ~InputsPresent(dirBefore)) => FailedCleanly

\* The inputs a load on the network reads.
InputsRead(network) ==
    IF network = "local" THEN ReadOnlyFiles \ {VERSIONS_FILENAME} ELSE ReadOnlyFiles

\* C2 amended: a load fails, writing nothing, when an input it reads is
\* missing; on network 'local' the versions file is not read, and a load
\* missing no other input returns.
C2_MissingReadInputFails ==
    Loaded =>
        IF \E f \in InputsRead(outcome.network) : dirBefore[f] = Missing
        THEN FailedCleanly
        ELSE ~outcome.threw

C2_Witness ==
    /\ Loaded /\ outcome.threw
    /\ outcome.network = "local"
    /\ dirBefore[CONFIG_FILENAME] = Missing
    /\ dirBefore[DEPLOYMENT_FILENAME] = Missing
    /\ dirBefore[OWNER_ACTIONS_FILENAME] = Missing
    /\ dir[DEPLOYMENT_FILENAME] = Missing
    /\ dir[OWNER_ACTIONS_FILENAME] = Missing

\* C3: a load with freshDeploy returns empty targets and sources whatever the
\* record on disk holds; every other collection is the document on disk,
\* with or without freshDeploy; a record that existed is left as it was, and
\* a load without freshDeploy after one with it returns the record on disk.
C3_FreshDeployClearsInMemoryOnly ==
    (Loaded /\ ~outcome.threw) =>
        /\ outcome.freshDeploy =>
              /\ outcome.value.deployment.props["targets"] = EmptyObject
              /\ outcome.value.deployment.props["sources"] = EmptyObject
              /\ dirBefore[DEPLOYMENT_FILENAME] # Missing =>
                    /\ dir[DEPLOYMENT_FILENAME] = dirBefore[DEPLOYMENT_FILENAME]
                    /\ DEPLOYMENT_FILENAME \notin outcome.written
        /\ outcome.value.config = Doc(CONFIG_FILENAME)
        /\ outcome.value.params = Doc(PARAMS_FILENAME)
        /\ outcome.value.synths = Doc(SYNTHS_FILENAME)
        /\ outcome.value.stakingRewards = Doc(STAKING_REWARDS_FILENAME)
        /\ outcome.value.shortingRewards = Doc(SHORTING_REWARDS_FILENAME)
        /\ outcome.value.futuresMarkets = Doc(FUTURES_MARKETS_FILENAME)
        /\ outcome.value.feeds = Doc(FEEDS_FILENAME)
        /\ outcome.value.versions =
              (IF outcome.network = "local" THEN EmptyObject ELSE Doc(VERSIONS_FILENAME))
        /\ outcome.value.ownerActions =
              (IF dirBefore[OWNER_ACTIONS_FILENAME] = Missing THEN EmptyObject
               ELSE dirBefore[OWNER_ACTIONS_FILENAME].json)
        /\ (/\ ~outcome.freshDeploy
            /\ previous.called /\ ~previous.threw /\ previous.freshDeploy
            /\ previous.deploymentFile # Missing) =>
              outcome.value.deployment = previous.deploymentFile.json

C3_Witness ==
    /\ Loaded /\ ~outcome.threw /\ ~outcome.freshDeploy
    /\ previous.called /\ ~previous.threw /\ previous.freshDeploy
    /\ previous.deploymentFile = File(DeployedRecord)
    /\ outcome.value.deployment = DeployedRecord
    /\ outcome.value.ownerActions.props # EmptyProps

----------------------------------------------------------------------------
(* Properties of the recorder *)

LoadedLedger == outcome.value.ownerActions

ExpectedEntry(call) ==
    Obj([target |-> Str(call.target),
         action |-> Str(call.action),
         complete |-> Bool(FALSE),
         link |-> Str(closure.explorerLinkPrefix \o "/address/" \o call.target
                      \o "#writeContract"),
         data |-> call.data])

\* C4: the ledger maps every appended key to the entry built from the latest
\* call for that key alone, maps every other key to the entry loaded for it,
\* and holds exactly the loaded and the appended keys.
C4_LatestAppendReplacesEntry ==
    closure.made =>
        /\ DOMAIN ownerActions.props = DOMAIN LoadedLedger.props \cup DOMAIN lastAppend
        /\ \A k \in DOMAIN lastAppend :
              ownerActions.props[k] = ExpectedEntry(lastAppend[k])
        /\ \A k \in DOMAIN LoadedLedger.props \ DOMAIN lastAppend :
              ownerActions.props[k] = LoadedLedger.props[k]

C4_Witness ==
    /\ lastOp = "append"
    /\ KeyNames[1] \in DOMAIN lastAppend
    /\ KeyNames[1] \in DOMAIN LoadedLedger.props
    /\ LoadedLedger.props[KeyNames[1]].props["complete"] = Bool(TRUE)
    /\ ownerActions.props[KeyNames[1]].props["complete"] = Bool(FALSE)
    /\ KeyNames[2] \in DOMAIN lastAppend

OwnerActionsOnDisk == dir[OWNER_ACTIONS_FILENAME]

\* An entry without the fields whose value is undefined.
DefinedFields(entry) ==
    Obj([f \in {g \in DOMAIN entry.props : entry.props[g] # Undefined} |->
            entry.props[f]])

\* C5 as stated: after an append, parsing the owner-action file gives the
\* keys and entries of the in-memory ledger (a field whose value is undefined
\* counts as no field).
C5_FileParsesToLedger ==
    lastOp = "append" =>
        /\ OwnerActionsOnDisk # Missing
        /\ DOMAIN OwnerActionsOnDisk.json.props = DOMAIN ownerActions.props
        /\ \A k \in DOMAIN ownerActions.props :
              OwnerActionsOnDisk.json.props[k] = DefinedFields(ownerActions.props[k])

IsBigNumberShaped(v) ==
    /\ v.kind = "object"
    /\ "type" \in DOMAIN v.props
    /\ v.props["type"] = Str("BigNumber")

\* C5 amended: after an append the owner-action file holds every key of the
\* in-memory ledger; a field of an entry is on disk as in memory, but a
\* BigNumber-shaped value is on disk as its decimal string and a field whose
\* value is undefined is not on disk.
C5_FileIsSerializedLedger ==
    lastOp = "append" =>
        /\ OwnerActionsOnDisk # Missing
        /\ DOMAIN OwnerActionsOnDisk.json.props = DOMAIN ownerActions.props
        /\ \A k \in DOMAIN ownerActions.props :
              LET mem == ownerActions.props[k].props
                  disk == OwnerActionsOnDisk.json.props[k].props
              IN  /\ DOMAIN disk = {f \in DOMAIN mem : mem[f] # Undefined}
                  /\ \A f \in DOMAIN disk :
                        IF IsBigNumberShaped(mem[f])
                        THEN disk[f] = Str(DecimalString(mem[f].props["hex"]))
                        ELSE disk[f] = mem[f]

C5_Witness ==
    /\ lastOp = "append"
    /\ KeyNames[1] \in DOMAIN LoadedLedger.props
    /\ KeyNames[1] \notin DOMAIN lastAppend
    /\ KeyNames[2] \in DOMAIN lastAppend
    /\ lastAppend[KeyNames[2]].data = BigNumberShaped(255)
    /\ OwnerActionsOnDisk.json.props[KeyNames[2]].props["data"] = Str("255")
    /\ OwnerActionsOnDisk.json.props[KeyNames[1]] = CompletedEntry

----------------------------------------------------------------------------
(* Properties of the confirmation prompt *)

Settled == promise.state \in {"resolved", "rejected"}

\* C6: confirmAction resolves when the answer is "y" or "Y" and rejects with
\* 'Not confirmed' on every other answer; either way the promise settles
\* exactly once and the readline interface is closed.
C6_OnlyYResolves ==
    Settled =>
        /\ IF answer \in {<<"y">>, <<"Y">>}
           THEN promise.state = "resolved"
           ELSE promise.state = "rejected" /\ promise.error = "Not confirmed"
        /\ promise.settled = 1
        /\ rl = "closed"

----------------------------------------------------------------------------
(* Properties of the error classifier *)

\* C7: the classifier returns only when generateSolidity or dryRun is set and
\* the message holds 'Missing address:', a blank and an identifier; in every
\* other case it throws the error object it was given.
C7_SwallowsOnlyMissingAddressInGenerationMode ==
    catchResult.status # "none" =>
        LET message == catchCall.err.message
            matches == \E i \in 1..(Len(message) - 2) :
                           /\ message[i] = "Missing address:"
                           /\ message[i + 1] = " "
                           /\ message[i + 2] = "FeePool"
        IN  IF (catchCall.generateSolidity \/ catchCall.dryRun) /\ matches
            THEN catchResult.status = "returned"
            ELSE /\ catchResult.status = "threw"
                 /\ catchResult.thrown = catchCall.err

C7_Witness ==
    /\ catchResult.status = "threw"
    /\ catchCall.err.message = <<"Missing address:", " ", "FeePool">>
    /\ ~catchCall.generateSolidity /\ ~catchCall.dryRun
    /\ catchResult.thrown = catchCall.err

----------------------------------------------------------------------------
(* Properties of the gas option builder *)

ProviderReportsMaxFee ==
    /\ ~gasCall.provider.threw
    /\ "maxFeePerGas" \in DOMAIN gasCall.provider.value.props
    /\ gasCall.provider.value.props["maxFeePerGas"].kind = "BigNumber"

\* C8: when getFeeData throws or reports no maxFeePerGas the promise resolves
\* to an object with exactly the fields and values of tx, whatever fee
\* arguments were passed; when it reports maxFeePerGas, every field of tx
\* keeps its value in the result.
C8_TxFieldsTakePrecedence ==
    gasResult.status # "none" =>
        IF ProviderReportsMaxFee
        THEN gasResult.status = "resolved" =>
                \A k \in DOMAIN gasCall.tx : gasResult.value[k] = gasCall.tx[k]
        ELSE /\ gasResult.status = "resolved"
             /\ gasResult.value = gasCall.tx

C8_Witness ==
    /\ gasResult.status = "resolved"
    /\ ProviderReportsMaxFee
    /\ gasCall.maxFeePerGas = Num(2)
    /\ gasCall.maxPriorityFeePerGas = Str("1")
    /\ DOMAIN gasCall.tx = {"to", "type", "maxFeePerGas"}
    /\ gasResult.value["type"] = Num(0)
    /\ gasResult.value["maxFeePerGas"] = BigNumber(0, 7)
    /\ gasResult.value["maxPriorityFeePerGas"] = BigNumber(1, 0)

----------------------------------------------------------------------------
(* Properties of the connection resolver *)

\* C9: loadConnections returns whatever variables are unset, and a value
\* whose variable is unset comes back undefined.
C9_UnsetVariablesComeBackUndefined ==
    connResult.status # "none" =>
        /\ connResult.status = "returned"
        /\ (IF connCall.network = "mainnet" THEN "DEPLOY_PRIVATE_KEY"
            ELSE "TESTNET_DEPLOY_PRIVATE_KEY") \notin connCall.env
              => connResult.value.privateKey = Undefined
        /\ (/\ ~connCall.useOvm /\ ~connCall.useFork /\ connCall.network # "local"
            /\ "PROVIDER_URL" \notin connCall.env
            /\ ~(connCall.network = "mainnet" /\ "PROVIDER_URL_MAINNET" \in connCall.env))
              => connResult.value.providerUrl = Undefined

----------------------------------------------------------------------------
(* Properties of two processes on one owner-action file *)

Range(seq) == {seq[i] : i \in 1..Len(seq)}
Other(p) == CHOOSE q \in Processes : q # p
BothLoaded == \A p \in Processes : pc[p] = "ready"

\* C10: once the process that wrote the owner-action file last has loaded,
\* the file is the serialization of that process's ledger alone; for a key
\* that only the other process appended after both had loaded, the file holds
\* what the last writer loaded for it, and nothing when it loaded nothing.
C10_LastWriterWins ==
    (~lastWriter.none /\ pc[lastWriter.id] = "ready") =>
        LET w == lastWriter.id
            onDisk == dir[OWNER_ACTIONS_FILENAME]
        IN  /\ onDisk = stringify(memLedger[w])
            /\ \A k \in appendedAfter[Other(w)] \ Range(appended[w]) :
                  IF k \in DOMAIN snapshot[w].props
                  THEN /\ k \in DOMAIN onDisk.json.props
                       /\ onDisk.json.props[k] = snapshot[w].props[k]
                  ELSE k \notin DOMAIN onDisk.json.props

\* A lost update: the other process appended a key after both had loaded,
\* holds it in memory, and the file does not hold it.
C10_Witness ==
    /\ BothLoaded /\ ~lastWriter.none
    /\ \E k \in appendedAfter[Other(lastWriter.id)] :
          /\ k \in DOMAIN memLedger[Other(lastWriter.id)].props
          /\ k \notin DOMAIN dir[OWNER_ACTIONS_FILENAME].json.props
          /\ DOMAIN dir[OWNER_ACTIONS_FILENAME].json.props # {}

----------------------------------------------------------------------------
(* Specifications *)

vars == <<loadVars, confirmVars, catchVars, gasVars, connVars, raceVars>>

LoadIdle ==
    /\ dir = [f \in Files |-> Missing]
    /\ lastOp = "none"
    /\ outcome = NoCall
    /\ previous = NoCall
    /\ dirBefore = dir
    /\ ownerActions = EmptyObject
    /\ closure = NoClosure
    /\ lastAppend = EmptyProps

GasIdle == gasCall = NotCalled /\ gasResult = NotCalled
ConnIdle == connCall = NotCalled /\ connResult = NotCalled

Init == InitLoad /\ ConfirmIdle /\ CatchIdle /\ GasIdle /\ ConnIdle /\ RaceIdle
Next == NextLoad
Spec == Init /\ [][Next]_vars

LedgerInit == InitLedger /\ ConfirmIdle /\ CatchIdle /\ GasIdle /\ ConnIdle /\ RaceIdle
SpecLedger == LedgerInit /\ [][NextLedger]_vars

ConfirmInit == LoadIdle /\ ConfirmIdle /\ CatchIdle /\ GasIdle /\ ConnIdle /\ RaceIdle
SpecConfirm == ConfirmInit /\ [][NextConfirm]_vars

CatchInit == LoadIdle /\ ConfirmIdle /\ InitCatch /\ GasIdle /\ ConnIdle /\ RaceIdle
SpecCatch == CatchInit /\ [][NextCatch]_vars

GasInit == LoadIdle /\ ConfirmIdle /\ CatchIdle /\ InitGas /\ ConnIdle /\ RaceIdle
SpecGas == GasInit /\ [][NextGas]_vars

ConnInit == LoadIdle /\ ConfirmIdle /\ CatchIdle /\ GasIdle /\ InitConn /\ RaceIdle
SpecConn == ConnInit /\ [][NextConn]_vars

RaceInit == InitRace /\ ConfirmIdle /\ CatchIdle /\ GasIdle /\ ConnIdle
SpecRace == RaceInit /\ [][NextRace]_vars

====
